---- MODULE Spec2Model ----
(***************************************************************************)
(* Model of packaging/os/zypper_repository.py: one invocation of main()    *)
(* against the zypper repository database, and repo_exists() called with   *)
(* arbitrary keyword arguments.                                            *)
(*                                                                         *)
(* Python strings are sequences of one-character strings; None is a        *)
(* reserved one-element sequence that no real string equals.               *)
(***************************************************************************)
EXTENDS Integers, Sequences, FiniteSets, TLC

\* ------------------------------------------------------------------ bounds
\* Largest number of repositories defined on the system before the run.
MaxRepos == 2

\* ----------------------------------------------------------------- strings
None == <<"None">>
Empty == <<>>

\* Python truthiness of an optional string: None and "" are falsy.
Truthy(s) == s # None /\ s # Empty

\* (v or "")
OrEmpty(s) == IF Truthy(s) THEN s ELSE Empty

\* str.rstrip("/"): drop every trailing "/".
RECURSIVE rstrip(_)
rstrip(s) ==
    IF Len(s) > 0 /\ s[Len(s)] = "/" THEN rstrip(SubSeq(s, 1, Len(s) - 1)) ELSE s

\* str.endswith(suffix)
endswith(s, suffix) ==
    /\ Len(s) >= Len(suffix)
    /\ SubSeq(s, Len(s) - Len(suffix) + 1, Len(s)) = suffix

DotRepo == <<".", "r", "e", "p", "o">>

\* ------------------------------------------------------------ input values
U1 == <<"u">>
U1S == <<"u", "/">>
RF == <<"f", ".", "r", "e", "p", "o">>
D1 == <<"d">>
E1 == <<"e">>
O1 == <<"o">>
AliasChars == <<"a", "b", "c", "g">>
N1 == <<AliasChars[1]>>

RepoVals == {None, Empty, U1, U1S, RF}
NameVals == {None, Empty, N1}
DescriptionVals == {None, D1}
StdoutVals == {Empty, O1}
StderrVals == {Empty, E1}
ExitCodes == {0, 1, 6}

\* ------------------------------------------------- zypper's repository db
REPO_OPTS == {"alias", "name", "priority", "enabled", "autorefresh", "gpgcheck"}

Aliases == {<<AliasChars[i]>> : i \in 1..MaxRepos}

\* What a repository of the database can look like besides its alias: one
\* named like an alias with refresh and GPG check off, or one with a
\* description as name and both on, at any of the urls.
Variants ==
    [url : {U1, U1S, RF},
     settings : {[name |-> N1, flag |-> <<"0">>], [name |-> D1, flag |-> <<"1">>]}]

\* One <repo> element of "zypper -x lr" as the dictionary _parse_repos builds.
Entry(a, v) ==
    [alias |-> a, name |-> v.settings.name, priority |-> <<"9">>, enabled |-> <<"1">>,
     autorefresh |-> v.settings.flag, gpgcheck |-> v.settings.flag, url |-> v.url]

\* Repository databases zypper can hold: aliases are unique.
Stores ==
    UNION { { {Entry(a, f[a]) : a \in A} : f \in [A -> Variants] } : A \in SUBSET Aliases }

\* zypper resolves a repository argument by alias, by name, or by URI.
ZypperMatches(e, ident) ==
    \/ e.alias = ident
    \/ e.name = ident
    \/ rstrip(e.url) = rstrip(ident)

ZypperLr(db, ident) == {e \in db : ZypperMatches(e, ident)}

ZypperRr(db, ident) == db \ ZypperLr(db, ident)

\* -------------------------------------------------------------------- state
VARIABLES
    params,     \* module.params of this invocation
    store,      \* repositories defined in zypper's database
    pc,         \* position of the invocation
    kwargs,     \* keyword arguments repo_exists was called with
    repos,      \* what _parse_repos returned
    exists,     \* first component of repo_exists' result
    mod,        \* second component of repo_exists' result
    cmds,       \* external commands run so far, in order, with their exit codes
    result      \* what the invocation reported (exit_json / fail_json)

vars == <<params, store, pc, kwargs, repos, exists, mod, cmds, result>>

NoResult ==
    [kind |-> "none", changed |-> FALSE, error |-> "", msg |-> Empty, has_name |-> FALSE]

\* module.exit_json(changed=..., repo=repo, state=state[, name=name])
exit_json(changed, with_name) ==
    [kind |-> "exit", changed |-> changed, error |-> "", msg |-> Empty, has_name |-> with_name]

\* module.fail_json(msg=...): the process ends with a failure report.
fail_json(error, msg) ==
    [kind |-> "fail", changed |-> FALSE, error |-> error, msg |-> msg, has_name |-> FALSE]

\* exit_unchanged() of main
exit_unchanged == exit_json(FALSE, TRUE)

\* One run of module.run_command.
Command(cmd, ident, alias, opts, rc, stdout, stderr) ==
    [cmd |-> cmd, ident |-> ident, alias |-> alias, opts |-> opts,
     rc |-> rc, stdout |-> stdout, stderr |-> stderr]

\* --------------------------------------------------------------- main, 1/2
CheckParams_name_allowed(p) ==
    IF p.state = "present" /\ ~Truthy(p.repo) THEN "requires_repo"
    ELSE IF p.state = "absent" /\ ~Truthy(p.repo) /\ ~Truthy(p.name) THEN "alias_or_repo_required"
    ELSE IF Truthy(p.repo) /\ endswith(p.repo, DotRepo) THEN "ok"
    ELSE IF ~Truthy(p.name) /\ p.state = "present" THEN "name_required"
    ELSE "ok"

\* The run-time parameter checks of main: the failure they end in, or "ok".
CheckParams(p) ==
    IF p.state = "present" /\ ~Truthy(p.repo) THEN "requires_repo"
    ELSE IF p.state = "absent" /\ ~Truthy(p.repo) /\ ~Truthy(p.name) THEN "alias_or_repo_required"
    ELSE IF Truthy(p.repo) /\ endswith(p.repo, DotRepo)
         THEN (IF Truthy(p.name) THEN "incompatible_name" ELSE "ok")
    ELSE IF ~Truthy(p.name) /\ p.state = "present" THEN "name_required"
    ELSE "ok"

MainKwargs_with_flags(p) ==
    IF (Truthy(p.repo) /\ endswith(p.repo, DotRepo)) \/ Truthy(p.name)
    THEN [url |-> p.repo, alias |-> p.name,
          autorefresh |-> IF p.refresh THEN <<"1">> ELSE <<"0">>]
    ELSE [url |-> p.repo]

\* The keyword arguments main hands to repo_exists.
MainKwargs(p) ==
    IF (Truthy(p.repo) /\ endswith(p.repo, DotRepo)) \/ Truthy(p.name)
    THEN [url |-> p.repo, alias |-> p.name]
    ELSE [url |-> p.repo]

\* main up to the call of repo_exists.
Main ==
    /\ pc = "main"
    /\ IF CheckParams(params) # "ok"
       THEN /\ result' = fail_json(CheckParams(params), Empty)
            /\ pc' = "done"
            /\ UNCHANGED kwargs
       ELSE /\ kwargs' = MainKwargs(params)
            /\ pc' = "repo_exists"
            /\ UNCHANGED result
    /\ UNCHANGED <<params, store, repos, exists, mod, cmds>>

\* ------------------------------------------------------------- repo_exists
\* kwargs.get(k, None)
Get(kw, k) == IF k \in DOMAIN kw THEN kw[k] ELSE None

Ident_alias_first(kw) ==
    IF Truthy(Get(kw, "alias")) THEN Get(kw, "alias")
    ELSE IF Truthy(Get(kw, "name")) THEN Get(kw, "name")
    ELSE Get(kw, "url")

\* kwargs.get('name') or kwargs.get('alias') or kwargs.get('url')
Ident(kw) ==
    IF Truthy(Get(kw, "name")) THEN Get(kw, "name")
    ELSE IF Truthy(Get(kw, "alias")) THEN Get(kw, "alias")
    ELSE Get(kw, "url")

repo_changes(realrepo, repocmp) ==
    \/ \E k \in DOMAIN repocmp : k \notin DOMAIN realrepo
    \/ \E k \in DOMAIN realrepo :
          /\ k \in DOMAIN repocmp
          /\ rstrip(OrEmpty(realrepo[k])) # rstrip(OrEmpty(repocmp[k]))

\* repo_exists up to the return of _parse_repos: "zypper -x lr <ident>".
\* zypper lists the repositories its database holds for the identifier; it
\* can exit 6 only when it lists none, and can fail at any time.
RepoExistsQuery ==
    /\ pc = "repo_exists"
    /\ IF Truthy(Ident(kwargs))
       THEN \E rc \in ExitCodes :
              /\ rc = 6 => ZypperLr(store, Ident(kwargs)) = {}
              /\ cmds' = Append(cmds, Command("lr", Ident(kwargs), None, {}, rc, Empty, Empty))
              /\ IF rc = 0
                 THEN /\ repos' = ZypperLr(store, Ident(kwargs))
                      /\ pc' = "repo_exists_result"
                      /\ UNCHANGED result
                 ELSE IF rc = 6
                 THEN /\ repos' = {}
                      /\ pc' = "repo_exists_result"
                      /\ UNCHANGED result
                 ELSE /\ result' = fail_json("lr_failed", Empty)
                      /\ pc' = "done"
                      /\ UNCHANGED repos
       ELSE /\ repos' = {}
            /\ pc' = "repo_exists_result"
            /\ UNCHANGED <<cmds, result>>
    /\ UNCHANGED <<params, store, kwargs, exists, mod>>

\* len(repos) is neither 1 nor 0: repo_exists ends in fail_json.
MoreThanOne_never(rs) == FALSE

MoreThanOne(rs) == Cardinality(rs) > 1

\* The result repo_exists computes from the list of repositories.
RepoExistsValue(rs, kw) ==
    IF Cardinality(rs) = 1
    THEN <<TRUE, repo_changes(CHOOSE r \in rs : TRUE, kw)>>
    ELSE <<FALSE, FALSE>>

\* repo_exists from the return of _parse_repos on.
RepoExistsResult ==
    /\ pc = "repo_exists_result"
    /\ IF MoreThanOne(repos)
       THEN /\ result' = fail_json("more_than_one_repo", Empty)
            /\ pc' = "done"
            /\ UNCHANGED <<exists, mod>>
       ELSE /\ exists' = RepoExistsValue(repos, kwargs)[1]
            /\ mod' = RepoExistsValue(repos, kwargs)[2]
            /\ pc' = "returned"
            /\ UNCHANGED result
    /\ UNCHANGED <<params, store, kwargs, repos, cmds>>

\* --------------------------------------------------------------- main, 2/2
\* main after repo_exists returned: report no change, or enter modify_repo
\* or remove_repo.
Branch ==
    /\ pc = "returned"
    /\ params.state \in {"present", "absent"}
    /\ IF params.state = "present"
       THEN IF exists /\ ~mod
            THEN result' = exit_unchanged /\ pc' = "done"
            ELSE pc' = "modify_repo" /\ UNCHANGED result
       ELSE IF ~exists
            THEN result' = exit_unchanged /\ pc' = "done"
            ELSE pc' = "remove_repo" /\ UNCHANGED result
    /\ UNCHANGED <<params, store, kwargs, repos, exists, mod, cmds>>

\* -------------------------------------------------------------- remove_repo
RemoveIdent_repo_first(repo, alias) == IF Truthy(repo) THEN repo ELSE alias

\* The argument of "zypper rr".
RemoveIdent(repo, alias) == IF Truthy(alias) THEN alias ELSE repo

RunRemove_unchecked(repo, alias, next) ==
    \E rc \in ExitCodes :
        /\ cmds' = Append(cmds, Command("rr", RemoveIdent(repo, alias), None, {}, rc, Empty, Empty))
        /\ store' = IF rc = 0 THEN ZypperRr(store, RemoveIdent(repo, alias)) ELSE store
        /\ next

\* module.run_command(['/usr/bin/zypper', 'rr', ident], check_rc=True):
\* a non-zero exit code ends the invocation inside run_command.
RunRemove(repo, alias, next) ==
    \E rc \in ExitCodes :
        /\ cmds' = Append(cmds, Command("rr", RemoveIdent(repo, alias), None, {}, rc, Empty, Empty))
        /\ IF rc = 0
           THEN /\ store' = ZypperRr(store, RemoveIdent(repo, alias))
                /\ next
           ELSE /\ result' = fail_json("rr_failed", Empty)
                /\ pc' = "done"
                /\ UNCHANGED store

\* state=absent: remove_repo, then module.exit_json(changed=changed, ...).
RemoveRepo ==
    /\ pc = "remove_repo"
    /\ RunRemove(params.repo, params.name,
                 result' = exit_json(TRUE, FALSE) /\ pc' = "done")
    /\ UNCHANGED <<params, kwargs, repos, exists, mod>>

\* -------------------------------------------------------------- modify_repo
remove_first_always == TRUE

\* The remove_first argument main passes to modify_repo.
remove_first == mod

\* if remove_first: remove_repo(module, repo, alias)
ModifyRepoRemove ==
    /\ pc = "modify_repo"
    /\ remove_first
    /\ RunRemove(params.repo, params.name,
                 pc' = "modify_repo_ar" /\ UNCHANGED result)
    /\ UNCHANGED <<params, kwargs, repos, exists, mod>>

\* The options of the "zypper ar" command line.
AddOpts(description, disable_gpg_check, refresh) ==
    {"--check", "-t plaindir"}
        \cup (IF Truthy(description) THEN {"--name"} ELSE {})
        \cup (IF disable_gpg_check THEN {"--no-gpgcheck"} ELSE {})
        \cup (IF refresh THEN {"--refresh"} ELSE {})

\* The alias operand of "zypper ar": none for a .repo file.
AddAlias(repo, alias) == IF ~endswith(repo, DotRepo) THEN alias ELSE None

\* The aliases a .repo file can name.
FileAliases == Aliases \cup {<<AliasChars[MaxRepos + 1]>>}

\* The repositories a successful "zypper ar" can leave defined: one more,
\* under the given alias, or for a .repo file under an alias the file names.
ZypperAr(db, repo, alias, description, disable_gpg_check, refresh) ==
    { db \cup {[alias |-> a,
                name |-> IF Truthy(description) THEN description ELSE a,
                priority |-> <<"9">>, enabled |-> <<"1">>,
                autorefresh |-> IF refresh THEN <<"1">> ELSE <<"0">>,
                gpgcheck |-> IF disable_gpg_check THEN <<"0">> ELSE <<"1">>,
                url |-> repo]} :
        a \in {x \in (IF alias = None THEN FileAliases ELSE {alias}) :
                  \A e \in db : e.alias # x} }

AddFailureMsg_stdout_first(stdout, stderr) == IF Truthy(stdout) THEN stdout ELSE stderr

\* The message modify_repo fails with when "zypper ar" exits non-zero.
AddFailureMsg(stdout, stderr) == IF Truthy(stderr) THEN stderr ELSE stdout

AddFailed_retry(stdout, stderr) ==
    /\ pc' = "modify_repo_ar"
    /\ UNCHANGED result

\* modify_repo when "zypper ar" exits non-zero: fail_json ends the invocation.
AddFailed(stdout, stderr) ==
    /\ result' = fail_json("ar_failed", AddFailureMsg(stdout, stderr))
    /\ pc' = "done"

\* modify_repo from the "zypper ar" command on, then main's exit_json.
ModifyRepoAdd ==
    /\ \/ pc = "modify_repo" /\ ~remove_first
       \/ pc = "modify_repo_ar"
    /\ \E rc \in ExitCodes, stdout \in StdoutVals, stderr \in StderrVals :
        /\ cmds' = Append(cmds,
                     Command("ar", params.repo, AddAlias(params.repo, params.name),
                             AddOpts(params.description, params.disable_gpg_check, params.refresh),
                             rc, stdout, stderr))
        /\ IF rc = 0
           THEN /\ store' \in ZypperAr(store, params.repo, AddAlias(params.repo, params.name),
                                       params.description, params.disable_gpg_check,
                                       params.refresh)
                /\ result' = exit_json(TRUE, FALSE)
                /\ pc' = "done"
           ELSE /\ AddFailed(stdout, stderr)
                /\ UNCHANGED store
    /\ UNCHANGED <<params, kwargs, repos, exists, mod>>

\* ---------------------------------------------------------- specifications
Params ==
    [repo : RepoVals, name : NameVals, state : {"present", "absent"},
     description : DescriptionVals, disable_gpg_check : BOOLEAN, refresh : BOOLEAN]

\* One invocation of main.
Init ==
    /\ params \in Params
    /\ store \in Stores
    /\ pc = "main"
    /\ kwargs = [url |-> None]
    /\ repos = {}
    /\ exists = FALSE
    /\ mod = FALSE
    /\ cmds = <<>>
    /\ result = NoResult

Next ==
    \/ Main
    \/ RepoExistsQuery
    \/ RepoExistsResult
    \/ Branch
    \/ RemoveRepo
    \/ ModifyRepoRemove
    \/ ModifyRepoAdd

Spec == Init /\ [][Next]_vars

\* repo_exists called with any keyword arguments.
KwKeys == {"name", "alias", "url", "description"}
KwVals == {None, N1, U1S}
KwargsDom == UNION {[K -> KwVals] : K \in SUBSET KwKeys}

NoParams ==
    [repo |-> None, name |-> None, state |-> "none", description |-> None,
     disable_gpg_check |-> FALSE, refresh |-> FALSE]

InitRepoExists ==
    /\ params = NoParams
    /\ store \in Stores
    /\ pc = "repo_exists"
    /\ kwargs \in KwargsDom
    /\ repos = {}
    /\ exists = FALSE
    /\ mod = FALSE
    /\ cmds = <<>>
    /\ result = NoResult

NextRepoExists ==
    \/ RepoExistsQuery
    \/ RepoExistsResult

SpecRepoExists == InitRepoExists /\ [][NextRepoExists]_vars

TypeOK ==
    /\ pc \in {"main", "repo_exists", "repo_exists_result", "returned",
               "modify_repo", "modify_repo_ar", "remove_repo", "done"}
    /\ result.kind \in {"none", "exit", "fail"}
    /\ \A e \in store \cup repos : DOMAIN e = REPO_OPTS \cup {"url"}

\* ------------------------------------------------------------------ claims
Ran(c) == \E i \in 1..Len(cmds) : cmds[i].cmd = c

Kinds == [i \in 1..Len(cmds) |-> cmds[i].cmd]

Supplied(s) == s # None /\ s # Empty

IsRepoFile(p) == Supplied(p.repo) /\ endswith(p.repo, DotRepo)

\* The existing entry e carries what the descriptor p asks for: its url, its
\* alias when p names one, its description when p gives one, and its flags.
MatchesDescriptor(e, p) ==
    /\ rstrip(e.url) = rstrip(p.repo)
    /\ Supplied(p.name) => e.alias = p.name
    /\ Supplied(p.description) => e.name = p.description
    /\ e.autorefresh = (IF p.refresh THEN <<"1">> ELSE <<"0">>)
    /\ e.gpgcheck = (IF p.disable_gpg_check THEN <<"0">> ELSE <<"1">>)

\* C1: state=present, a valid descriptor (a non-.repo URI with a name, or a
\* .repo URI without one) and a query that returns exactly one entry matching
\* the descriptor: main reports changed=false and runs neither rr nor ar.
C1_IdempotentPresent ==
    ( /\ params.state = "present"
      /\ \/ ~IsRepoFile(params) /\ Supplied(params.repo) /\ Supplied(params.name)
         \/ IsRepoFile(params) /\ ~Supplied(params.name)
      /\ pc \notin {"main", "repo_exists", "repo_exists_result"}
      /\ Cardinality(repos) = 1
      /\ \A e \in repos : MatchesDescriptor(e, params) )
    => /\ ~Ran("rr") /\ ~Ran("ar")
       /\ pc = "done" => result = exit_unchanged

\* (a)-(d) of C2, as the claim words them.
InvalidParams(p) ==
    \/ p.state = "present" /\ ~Supplied(p.repo)
    \/ p.state = "absent" /\ ~Supplied(p.repo) /\ ~Supplied(p.name)
    \/ IsRepoFile(p) /\ Supplied(p.name)
    \/ ~IsRepoFile(p) /\ p.state = "present" /\ ~Supplied(p.name)

\* C2: invalid parameter combinations end in a failure report with no
\* external command run; every other combination reaches the query.
C2_ValidationFirst ==
    /\ (InvalidParams(params) /\ pc # "main")
          => pc = "done" /\ result.kind = "fail" /\ cmds = <<>>
    /\ (~InvalidParams(params) /\ pc # "main")
          => \/ pc = "repo_exists" /\ cmds = <<>> /\ result.kind = "none"
             \/ Len(cmds) >= 1 /\ cmds[1].cmd = "lr"

C2_Witness ==
    /\ pc = "done"
    /\ IsRepoFile(params) /\ Supplied(params.name)
    /\ result.kind = "fail"
    /\ result.error = "incompatible_name"
    /\ cmds = <<>>

\* C3: when the query returns more than one entry, for either state, the
\* invocation fails and runs neither ar nor rr.
C3_AmbiguousIsFatal ==
    Cardinality(repos) > 1
        => /\ pc \in {"repo_exists_result", "done"}
           /\ ~Ran("rr") /\ ~Ran("ar")
           /\ pc = "done" => result.kind = "fail" /\ result.error = "more_than_one_repo"

C3_Witness ==
    /\ pc = "done"
    /\ Cardinality(repos) > 1
    /\ result.kind = "fail"
    /\ Kinds = <<"lr">>

\* C4: state=absent, an existing match and a remove that exits 0: main
\* reports changed=true, a query with the same identifier then lists nothing,
\* and rr was addressed with name when it is set and with the URI otherwise.
C4_RemovalConverges ==
    ( /\ params.state = "absent"
      /\ Len(cmds) = 2
      /\ cmds[2].cmd = "rr"
      /\ cmds[2].rc = 0 )
    => /\ pc = "done"
       /\ result.kind = "exit" /\ result.changed
       /\ ZypperLr(store, cmds[1].ident) = {}
       /\ Supplied(params.name) => cmds[2].ident = params.name
       /\ ~Supplied(params.name) => cmds[2].ident = params.repo

C4_Witness ==
    /\ params.state = "absent"
    /\ Supplied(params.name) /\ Supplied(params.repo)
    /\ Kinds = <<"lr", "rr">>
    /\ cmds[2].rc = 0
    /\ \E e \in repos : e.alias = params.name /\ rstrip(e.url) # rstrip(params.repo)
    /\ result.kind = "exit" /\ result.changed

\* C5 as stated: an invocation runs at most 2 external commands.
C5_AtMostTwoCommands == Len(cmds) <= 2

\* C5 amended: an invocation runs at most 3 external commands, and three
\* only as query, remove, add.
C5_AtMostThreeCommands ==
    /\ Len(cmds) <= 3
    /\ Len(cmds) = 3 => Kinds = <<"lr", "rr", "ar">>

C5_Witness ==
    /\ pc = "done"
    /\ Kinds = <<"lr", "rr", "ar">>
    /\ params.state = "present"
    /\ result.kind = "exit"

\* The identifier C6 states: alias first, then name, then url.
AliasNameUrl(kw, t) ==
    /\ Truthy(Get(kw, "alias")) => t = Get(kw, "alias")
    /\ (~Truthy(Get(kw, "alias")) /\ Truthy(Get(kw, "name"))) => t = Get(kw, "name")
    /\ (~Truthy(Get(kw, "alias")) /\ ~Truthy(Get(kw, "name"))) => t = Get(kw, "url")

\* The identifier the amended C6 states: name first, then alias, then url.
NameAliasUrl(kw, t) ==
    /\ Truthy(Get(kw, "name")) => t = Get(kw, "name")
    /\ (~Truthy(Get(kw, "name")) /\ Truthy(Get(kw, "alias"))) => t = Get(kw, "alias")
    /\ (~Truthy(Get(kw, "name")) /\ ~Truthy(Get(kw, "alias"))) => t = Get(kw, "url")

AnyIdent(kw) == \E k \in {"alias", "name", "url"} : Truthy(Get(kw, k))

\* C6 as stated: repo_exists queries with the alias when there is one, with
\* the name only without an alias, with the url only without both; with no
\* identifier it runs no query and returns (false, false).
C6_AliasFirst ==
    pc # "repo_exists"
        => IF AnyIdent(kwargs)
           THEN Len(cmds) = 1 /\ cmds[1].cmd = "lr" /\ AliasNameUrl(kwargs, cmds[1].ident)
           ELSE cmds = <<>> /\ (pc = "returned" => ~exists /\ ~mod)

\* C6 amended: repo_exists queries with the name when there is one, with the
\* alias only without a name, with the url only without both; with no
\* identifier it runs no query and returns (false, false).
C6_NameFirst ==
    pc # "repo_exists"
        => IF AnyIdent(kwargs)
           THEN Len(cmds) = 1 /\ cmds[1].cmd = "lr" /\ NameAliasUrl(kwargs, cmds[1].ident)
           ELSE cmds = <<>> /\ pc # "done" /\ (pc = "returned" => ~exists /\ ~mod)

C6_Witness ==
    /\ pc = "returned"
    /\ Truthy(Get(kwargs, "name")) /\ Truthy(Get(kwargs, "alias"))
    /\ Get(kwargs, "name") # Get(kwargs, "alias")
    /\ cmds[1].ident = Get(kwargs, "name")

\* C7: changed=false is reported only after exactly one query and no ar or
\* rr (present with exists and not differs, or absent with not exists);
\* changed=true only when the last command was an ar or rr that exited 0.
C7_ChangedIsTruthful ==
    (pc = "done" /\ result.kind = "exit")
        => IF result.changed
           THEN /\ Len(cmds) >= 1
                /\ cmds[Len(cmds)].cmd \in {"ar", "rr"}
                /\ cmds[Len(cmds)].rc = 0
           ELSE /\ Kinds = <<"lr">>
                /\ \/ params.state = "present" /\ exists /\ ~mod
                   \/ params.state = "absent" /\ ~exists

C7_Witness ==
    /\ pc = "done"
    /\ result.kind = "exit"
    /\ result.changed
    /\ params.state = "absent"
    /\ Kinds = <<"lr", "rr">>

C7_WitnessUnchanged ==
    /\ pc = "done"
    /\ result = exit_unchanged
    /\ params.state = "present"
    /\ Kinds = <<"lr">>

\* C8: with state=present, rr runs if and only if the query found exactly one
\* entry and it differs; the ar then follows it directly and only after rr
\* exited 0; when no entry exists the ar runs with no rr before it.
C8_RemoveThenAdd ==
    (params.state = "present" /\ pc = "done" /\ Len(cmds) >= 1 /\ cmds[1].rc \in {0, 6})
        => /\ Ran("rr") <=> (Cardinality(repos) = 1
                              /\ repo_changes(CHOOSE r \in repos : TRUE, kwargs))
           /\ Ran("rr") => /\ cmds[2].cmd = "rr"
                           /\ cmds[2].rc = 0 => Kinds = <<"lr", "rr", "ar">>
                           /\ cmds[2].rc # 0 => Kinds = <<"lr", "rr">> /\ result.kind = "fail"
           /\ repos = {} => Kinds = <<"lr", "ar">>

C8_Witness ==
    /\ params.state = "present"
    /\ pc = "done"
    /\ Kinds = <<"lr", "rr", "ar">>
    /\ cmds[2].rc = 0
    /\ Cardinality(repos) = 1

C8_WitnessRemoveFails ==
    /\ params.state = "present"
    /\ pc = "done"
    /\ Kinds = <<"lr", "rr">>
    /\ cmds[2].rc # 0

\* C9: state=present, an existing but differing entry, rr exits 0 and ar
\* exits non-zero: the invocation fails with stderr (stdout when stderr is
\* empty), reports no change, runs nothing more, and the entry stays removed.
C9_AddFailureLeavesAbsent ==
    ( /\ params.state = "present"
      /\ Len(cmds) >= 3
      /\ cmds[2].cmd = "rr" /\ cmds[2].rc = 0
      /\ cmds[3].cmd = "ar" /\ cmds[3].rc # 0 )
    => /\ pc = "done"
       /\ Len(cmds) = 3
       /\ result.kind = "fail"
       /\ ~result.changed
       /\ cmds[3].stderr # Empty => result.msg = cmds[3].stderr
       /\ cmds[3].stderr = Empty => result.msg = cmds[3].stdout
       /\ repos \cap store = {}
       /\ ZypperLr(store, cmds[1].ident) = {}

C9_Witness ==
    /\ params.state = "present"
    /\ pc = "done"
    /\ Kinds = <<"lr", "rr", "ar">>
    /\ cmds[2].rc = 0
    /\ cmds[3].rc # 0
    /\ cmds[3].stderr = Empty /\ cmds[3].stdout # Empty
    /\ result.kind = "fail"
    /\ repos # {}

\* Entries that differ from e at most in name, priority, enabled,
\* autorefresh and gpgcheck.
SameAliasAndUrl(e) ==
    {[e EXCEPT !.name = n, !.priority = pr, !.enabled = en,
               !.autorefresh = ar, !.gpgcheck = gp] :
        n \in {N1, D1}, pr \in {<<"9">>, <<"1">>}, en \in {<<"1">>, <<"0">>},
        ar \in {<<"1">>, <<"0">>}, gp \in {<<"1">>, <<"0">>}}

\* Invocations that differ from p at most in description, disable_gpg_check
\* and refresh.
SameRepoNameState(p) ==
    {[p EXCEPT !.description = d, !.disable_gpg_check = g, !.refresh = r] :
        d \in DescriptionVals, g \in BOOLEAN, r \in BOOLEAN}

\* C10: the decision depends only on the entry's alias and url: any
\* invocation that differs only in description/disable_gpg_check/refresh, on
\* any entry that differs only in name/priority/enabled/autorefresh/gpgcheck,
\* computes the same (exists, differs); and with state=present an entry whose
\* alias and url match yields changed=false and no ar or rr whatever its flags.
C10_OnlyAliasAndUrl ==
    /\ (pc = "returned" /\ Cardinality(repos) = 1)
          => /\ \A q \in SameRepoNameState(params) : MainKwargs(q) = kwargs
             /\ \A e \in repos : \A e2 \in SameAliasAndUrl(e) :
                  RepoExistsValue({e2}, kwargs) = <<exists, mod>>
    /\ ( /\ pc = "done"
         /\ params.state = "present"
         /\ Cardinality(repos) = 1
         /\ \A e \in repos : /\ e.alias = params.name
                             /\ rstrip(e.url) = rstrip(params.repo) )
          => result = exit_unchanged /\ Kinds = <<"lr">>

C10_Witness ==
    /\ pc = "done"
    /\ params.state = "present"
    /\ params.refresh /\ ~params.disable_gpg_check
    /\ \E e \in repos : /\ e.alias = params.name
                        /\ e.autorefresh = <<"0">> /\ e.gpgcheck = <<"0">>
    /\ Cardinality(repos) = 1
    /\ result = exit_unchanged

====
